---- MODULE Spec2Model ----
(***************************************************************************)
(* Model of the Plubin backend (src/backend): the request handlers of      *)
(* app/routes/teste.py, the asset gateway of app/supabase_client.py and    *)
(* the scripts supabase_upload.py and skp_processor.py.                    *)
(*                                                                         *)
(* Numbers.  The float fields of the drawer and block schemas are held as  *)
(* integers counting tenths of a millimetre, so that H * 0.9 is exact for  *)
(* every input that is a whole number of millimetres: Mm(n) is n mm.       *)
(* The int fields of the sketch schemas are plain integers.                *)
(*                                                                         *)
(* Optional values.  Python's None is the empty sequence and a present     *)
(* value v is <<v>>.                                                       *)
(***************************************************************************)
EXTENDS Integers, Sequences, FiniteSets, TLC

VARIABLES
    request,        \* the request the router received: [op, payload]
    result,         \* the HTTP answer of the handler: [status, detail, body]
    supabase,       \* SupabaseManager.supabase: the standard client handle
    service_client, \* SupabaseManager.service_client: the privileged handle
    service_role_key, \* SupabaseManager.service_role_key is set (env)
    store,          \* the remote 'assets' table: sequence of rows
    last,           \* the last gateway call behind a route: [op, arg, ret, raised, ...]
    mgr,            \* the last direct call of a SupabaseManager method or script
    attempted,      \* per handle: a direct call has called create_client for it
    db,             \* the local table 'dimensoes': sequence of rows
    assigned,       \* the records the create handlers returned so far
    drawer_first,   \* the first answer to each create_drawer payload: [payload, answer]
    metadata,       \* the metadata file of SKPProcessor: sequence of [key, value]
    meta_last       \* the last operation on the metadata file

handlerVars == <<request, result>>

gatewayVars == <<supabase, service_client, service_role_key, store, last>>

managerVars == <<mgr, attempted>>

sketchVars == <<db, assigned, drawer_first>>

metaVars == <<metadata, meta_last>>

vars == <<handlerVars, gatewayVars, managerVars, sketchVars, metaVars>>

----------------------------------------------------------------------------
(* Bounds of the model *)

MaxDim == 5        \* largest dimension of a request, in hundreds of millimetres
MaxFaces == 2      \* longest faces list of a block request
MaxAssets == 2     \* most rows of the remote assets table, and its ids 1 .. MaxAssets
MaxRows == 3       \* most rows of the table dimensoes
MaxEntries == 3    \* most entries of assets_metadata.json; ids stay within MaxEntries + 1

----------------------------------------------------------------------------
(* Values *)

None == <<>>
Some(v) == <<v>>

Mm(n) == n * 10

\* Whole millimetres a request can carry; the schemas put no range on them.
Dims == { Mm(k) : k \in (0 - 1) .. 1 } \cup { Mm(100 * k) : k \in 1 .. MaxDim }

\* The int values a sketch request can carry.
IntDims == (0 - 1) .. MaxDim

\* x * 0.9 on tenths of a millimetre (exact when x is whole millimetres).
Times09(x) == (x * 9) \div 10

----------------------------------------------------------------------------
(* Schemas (app/models/schemas.py) *)

PartDimensions(largura, altura, profundidade) ==
    [largura |-> largura, altura |-> altura, profundidade |-> profundidade]

\* PartProps: quantity defaults to 1, dimensions/material/notes to None.
PartProps(name, type, quantity, dimensions, material, notes) ==
    [name |-> name, type |-> type, quantity |-> quantity,
     dimensions |-> dimensions, material |-> material, notes |-> notes]

AssemblyDefinition(L, H, D, include_handle, include_screws) ==
    [largura |-> L, altura |-> H, profundidade |-> D,
     include_handle |-> include_handle, include_screws |-> include_screws]

AssemblyResponse(name, largura, altura, profundidade, parts) ==
    [name |-> name, largura |-> largura, altura |-> altura,
     profundidade |-> profundidade, parts |-> parts]

SketchDimensions(L, H, D) == [largura |-> L, altura |-> H, profundidade |-> D]

SketchResponse(name, x, y, z) == [name |-> name, x |-> x, y |-> y, z |-> z]

\* FaceProps: color, material and thickness default to None.
FaceProps(name, color, material, thickness) ==
    [name |-> name, color |-> color, material |-> material, thickness |-> thickness]

FacePropsOf(name) == FaceProps(name, None, None, None)

\* BlockDefinition: faces has default_factory=list, so a body that omits the
\* field (None here) is parsed to the empty list.
BlockDefinition(L, H, D, faces) ==
    [largura |-> L, altura |-> H, profundidade |-> D,
     faces |-> IF faces = None THEN <<>> ELSE faces[1]]

BlockResponse(name, largura, altura, profundidade, faces) ==
    [name |-> name, largura |-> largura, altura |-> altura,
     profundidade |-> profundidade, faces |-> faces]

----------------------------------------------------------------------------
(* HTTP answers *)

Ok(body) == [status |-> 200, detail |-> "", body |-> Some(body)]

HTTPException(status_code, detail) ==
    [status |-> status_code, detail |-> detail, body |-> None]

Pending == [status |-> 0, detail |-> "pending", body |-> None]

----------------------------------------------------------------------------
(* create_drawer (app/routes/teste.py) *)

side_panel(L, H, D) ==
    PartProps("side_panel", "panel", 2, Some(PartDimensions(D, H, Mm(10))),
              Some("MDF"), Some("Lateral esquerda/direita"))

back_panel(L, H, D) ==
    PartProps("back_panel", "panel", 1, Some(PartDimensions(L, H, Mm(10))),
              Some("MDF"), Some("Painel traseiro"))

bottom_panel(L, H, D) ==
    PartProps("bottom_panel", "panel", 1, Some(PartDimensions(L, D, Mm(6))),
              Some("Compensado"), Some("Fundo da gaveta"))

\* front_panel with the 0.9 factor left out.
front_panel_unscaled(L, H, D) ==
    PartProps("front_panel", "panel", 1, Some(PartDimensions(L, H, Mm(18))),
              Some("MDF"), Some("Painel frontal da gaveta"))

front_panel(L, H, D) ==
    PartProps("front_panel", "panel", 1, Some(PartDimensions(L, Times09(H), Mm(18))),
              Some("MDF"), Some("Painel frontal da gaveta"))

handle ==
    PartProps("handle", "hardware", 1, Some(PartDimensions(Mm(120), Mm(30), Mm(40))),
              Some("Metal"), Some("Puxador - montar na frente"))

runner(L, H, D) ==
    PartProps("runner", "hardware", 2, Some(PartDimensions(D, Mm(30), Mm(20))),
              Some("Steel"), Some("Corredicas laterais"))

\* ball_bearing counted for one runner only.
ball_bearing_per_runner ==
    PartProps("ball_bearing", "hardware", 4, None,
              Some("Steel"), Some("Rolamentos para corredicas"))

ball_bearing ==
    PartProps("ball_bearing", "hardware", 8, None,
              Some("Steel"), Some("Rolamentos para corredicas"))

screw_pan_head ==
    PartProps("screw_pan_head", "fastener", 24, Some(PartDimensions(Mm(4), Mm(20), Mm(0))),
              Some("Steel"), Some("Parafusos para montagem"))

cam_lock ==
    PartProps("cam_lock", "fastener", 4, None,
              Some("Zamak"), Some("Travas de montagem"))

glue ==
    PartProps("glue", "consumable", 1, None,
              None, Some("Cola para madeira - 1 tubo"))

\* The four unconditional appends of the drawer box and the front panel.
box_parts(L, H, D) ==
    <<side_panel(L, H, D), back_panel(L, H, D), bottom_panel(L, H, D),
      front_panel(L, H, D)>>

\* The handle append nested under the screws flag.
handle_parts_coupled(payload) ==
    IF payload.include_handle /\ payload.include_screws THEN <<handle>> ELSE <<>>

\* if payload.include_handle: parts.append(handle)
handle_parts(payload) ==
    IF payload.include_handle THEN <<handle>> ELSE <<>>

\* if payload.include_screws: parts.append(screw_pan_head); parts.append(cam_lock)
screw_parts(payload) ==
    IF payload.include_screws THEN <<screw_pan_head, cam_lock>> ELSE <<>>

\* The screws block moved after the glue append.
drawer_parts_screws_last(payload) ==
    LET L == payload.largura
        H == payload.altura
        D == payload.profundidade
    IN  box_parts(L, H, D)
        \o handle_parts(payload)
        \o <<runner(L, H, D), ball_bearing>>
        \o <<glue>>
        \o screw_parts(payload)

\* The list `parts` at the return, the appends taken in program order.
drawer_parts(payload) ==
    LET L == payload.largura
        H == payload.altura
        D == payload.profundidade
    IN  box_parts(L, H, D)
        \o handle_parts(payload)
        \o <<runner(L, H, D), ball_bearing>>
        \o screw_parts(payload)
        \o <<glue>>

\* The response built from the last stored sketch when the table holds one.
create_drawer_from_store(payload) ==
    LET dims == IF db = <<>> THEN payload
                ELSE [payload EXCEPT !.largura = db[Len(db)].largura,
                                     !.altura = db[Len(db)].altura,
                                     !.profundidade = db[Len(db)].profundidade]
    IN  Ok(AssemblyResponse("drawer", dims.largura, dims.altura, dims.profundidade,
                            drawer_parts(dims)))

create_drawer(payload) ==
    Ok(AssemblyResponse("drawer", payload.largura, payload.altura,
                        payload.profundidade, drawer_parts(payload)))

----------------------------------------------------------------------------
(* post_sketch_caixote (app/routes/teste.py) *)

\* The response built in the order of the input fields.
post_sketch_caixote_input_order(payload) ==
    Ok(SketchResponse("caixote", payload.largura, payload.altura, payload.profundidade))

post_sketch_caixote(payload) ==
    Ok(SketchResponse("caixote", payload.largura, payload.profundidade, payload.altura))

----------------------------------------------------------------------------
(* create_block (app/routes/teste.py) *)

\* default_face_names with the last name missing.
default_face_names_five == <<"front", "back", "left", "right", "top">>

default_face_names == <<"front", "back", "left", "right", "top", "bottom">>

\* Faces back-filled with a default for every name not supplied.
block_faces_merged(payload) ==
    LET given == { payload.faces[i].name : i \in 1 .. Len(payload.faces) }
        missing == SelectSeq(default_face_names, LAMBDA n : n \notin given)
    IN  payload.faces \o [i \in 1 .. Len(missing) |-> FacePropsOf(missing[i])]

\* Faces always taken from default_face_names, whatever the request carried.
block_faces_default_only(payload) ==
    [i \in 1 .. Len(default_face_names) |-> FacePropsOf(default_face_names[i])]

\* if payload.faces and len(payload.faces) > 0: faces = payload.faces
\* else: faces = [FaceProps(name=n) for n in default_face_names]
block_faces(payload) ==
    IF payload.faces # <<>> /\ Len(payload.faces) > 0
    THEN payload.faces
    ELSE [i \in 1 .. Len(default_face_names) |-> FacePropsOf(default_face_names[i])]

create_block(payload) ==
    Ok(BlockResponse("block", payload.largura, payload.altura,
                     payload.profundidade, block_faces(payload)))

----------------------------------------------------------------------------
(* Requests the router can receive *)

\* Face entries a block request can carry; FaceProps.name is any string.
FaceUniverse ==
    { FaceProps(n, c, None, None) : n \in {"top", "front", "lid"},
                                    c \in {None, Some("red")} }
    \cup { FaceProps("top", Some("red"), Some("MDF"), Some(Mm(18))) }

RECURSIVE SeqsUpTo(_, _)
SeqsUpTo(S, n) ==
    IF n = 0 THEN { <<>> }
    ELSE LET shorter == SeqsUpTo(S, n - 1)
         IN  shorter \cup { Append(s, x) : s \in shorter, x \in S }

\* The faces field of a block body: omitted, or a list of up to MaxFaces faces.
FacesFields == { None } \cup { Some(fs) : fs \in SeqsUpTo(FaceUniverse, MaxFaces) }

BlockSizes == { <<Mm(1), Mm(2), Mm(3)>>, <<Mm(2), Mm(2), Mm(2)>>, <<Mm(0), Mm(1), Mm(0 - 1)>> }

DrawerRequests ==
    { [op |-> "create_drawer", payload |-> AssemblyDefinition(L, H, D, ih, isc)] :
        L \in Dims, H \in Dims, D \in Dims, ih \in BOOLEAN, isc \in BOOLEAN }

SketchRequests ==
    { [op |-> "post_sketch_caixote", payload |-> SketchDimensions(L, H, D)] :
        L \in IntDims, H \in IntDims, D \in IntDims }

BlockRequests ==
    { [op |-> "create_block", body_faces |-> fs,
       payload |-> BlockDefinition(b[1], b[2], b[3], fs)] :
        b \in BlockSizes, fs \in FacesFields }

NoRequest == [op |-> "none", payload |-> None]

----------------------------------------------------------------------------
(* The asset gateway: SupabaseManager (app/supabase_client.py) *)

\* A statement sequence either returns a value or raises.
Return(v) == [exc |-> FALSE, val |-> v]
Raise == [exc |-> TRUE, val |-> None]

\* try: <outcome>  except Exception: return fallback
Catch(outcome, fallback) == IF outcome.exc THEN Return(fallback) ELSE outcome

\* What the environment does during one call: whether create_client succeeds
\* for the anon key and for the service key, and whether the remote request
\* is answered (otherwise execute() raises).
Envs == [anon_ok : BOOLEAN, service_ok : BOOLEAN, net_ok : BOOLEAN]

\* _ensure_clients: the handles after the call.  A handle that is None is
\* (re)constructed; the privileged one only when service_role_key is set.
\* Both constructions catch their own exceptions.
\* w is the manager's handles and the remote table: [supabase, service_client, store].
\* The standard client constructed anew on every call.
constructs_standard_always(w) == TRUE

\* if self.supabase is None:
constructs_standard(w) == w.supabase = "None"

\* if self.service_client is None and self.service_role_key:
constructs_privileged(w) == w.service_client = "None" /\ service_role_key

ensure_clients_in(w, env) ==
    [supabase |->
        IF constructs_standard(w)
        THEN (IF env.anon_ok THEN "anon" ELSE "None")
        ELSE w.supabase,
     service_client |->
        IF constructs_privileged(w)
        THEN (IF env.service_ok THEN "service" ELSE "None")
        ELSE w.service_client,
     store |-> w.store]

\* The handles and the table in the current state.
World == [supabase |-> supabase, service_client |-> service_client, store |-> store]

ensure_clients(env) == ensure_clients_in(World, env)

\* Rows of the assets table.
AssetIds == { ToString(i) : i \in 1 .. MaxAssets }
AssetNames == {"balcao_simples", "puxador_standard"}
TypeOf(name) == IF name = "balcao_simples" THEN "furniture" ELSE "hardware"
Row(id, name) ==
    [id |-> id, name |-> name, type |-> TypeOf(name), version |-> "1.0",
     skp_url |-> None, skp_base64 |-> None, tags |-> <<>>]
Rows == { Row(id, name) : id \in AssetIds, name \in AssetNames }

\* select("*").eq(column, value): the rows of the table that match, in table order.
select_eq_id(table, asset_id) == SelectSeq(table, LAMBDA row : row.id = asset_id)
select_eq_type(table, asset_type) == SelectSeq(table, LAMBDA row : row.type = asset_type)

\* query.limit(n)
limit_rows(rows, n) == SubSeq(rows, 1, IF Len(rows) < n THEN Len(rows) ELSE n)

\* The body of get_asset's try block.
get_asset_try(asset_id, env) ==
    IF ensure_clients(env).supabase = "None" THEN Return(None)
    ELSE IF ~env.net_ok THEN Raise
    ELSE LET data == select_eq_id(store, asset_id)
         IN  Return(IF data # <<>> THEN Some(data[1]) ELSE None)

\* get_asset with the except clause left out.
get_asset_uncaught(asset_id, env) == get_asset_try(asset_id, env)

\* SupabaseManager.get_asset
SupabaseManager_get_asset(asset_id, env) == Catch(get_asset_try(asset_id, env), None)

\* The body of list_assets's try block.
list_assets_try(asset_type, limit, env) ==
    IF ensure_clients(env).supabase = "None" THEN Return(<<>>)
    ELSE IF ~env.net_ok THEN Raise
    ELSE LET query == IF asset_type # None
                      THEN select_eq_type(store, asset_type[1])
                      ELSE store
         IN  Return(limit_rows(query, limit))

\* list_assets with the except clause left out.
list_assets_uncaught(asset_type, limit, env) == list_assets_try(asset_type, limit, env)

\* SupabaseManager.list_assets
SupabaseManager_list_assets(asset_type, limit, env) ==
    Catch(list_assets_try(asset_type, limit, env), <<>>)

\* AssetResponse built from a row of the table: absent keys take the defaults.
AssetResponse(asset_data) ==
    [id |-> asset_data.id, name |-> asset_data.name, type |-> asset_data.type,
     version |-> asset_data.version, json_spec |-> None,
     skp_url |-> asset_data.skp_url, skp_base64 |-> asset_data.skp_base64,
     default_params |-> None, tags |-> asset_data.tags]

\* get_asset (app/routes/teste.py): the answer given the manager's outcome.
get_asset(outcome) ==
    IF outcome.exc THEN HTTPException(500, "Error fetching asset")
    ELSE IF outcome.val = None THEN HTTPException(404, "Asset not found")
    ELSE Ok(AssetResponse(outcome.val[1]))

\* list_assets (app/routes/teste.py): the answer given the manager's outcome.
list_assets(outcome) ==
    IF outcome.exc THEN HTTPException(500, "Error fetching assets")
    ELSE Ok([i \in 1 .. Len(outcome.val) |-> AssetResponse(outcome.val[i])])

\* The record kept of a gateway call.
Call(op, arg, outcome, env) ==
    [op |-> op, arg |-> arg, ret |-> outcome.val, raised |-> outcome.exc,
     client |-> ensure_clients(env).supabase # "None", net_ok |-> env.net_ok]

NoCall ==
    [op |-> "none", arg |-> None, ret |-> None, raised |-> FALSE,
     client |-> FALSE, net_ok |-> FALSE]

\* Tables the remote store can hold when the service starts: up to MaxAssets
\* rows with pairwise distinct ids (id is the primary key).
Stores ==
    { t \in SeqsUpTo(Rows, MaxAssets) :
        \A i \in 1 .. Len(t) : \A j \in 1 .. Len(t) : i # j => t[i].id # t[j].id }

\* Ids a lookup can ask for: one more than the table can hold.
LookupIds == { ToString(i) : i \in 1 .. MaxAssets + 1 }

AssetTypes == { None } \cup { Some(TypeOf(n)) : n \in AssetNames }

Limits == { 1, 100 }

----------------------------------------------------------------------------
(* SupabaseManager methods called directly, on an explicit world w *)

\* The outcome of a method: what it returns or raises, the world it leaves,
\* and what it did on the way: whether _ensure_clients ran, the client the
\* remote request went through ("None" when no request was made), whether the
\* upload was accepted, whether a signed URL was requested and how the
\* signing step went ("none" when it was not entered, "no_http" when the
\* name requests is unbound, else the answer of the sign endpoint).
Outcome(exc, val, w, ensured, used) ==
    [exc |-> exc, val |-> val, w |-> w, ensured |-> ensured, used |-> used,
     caught |-> FALSE, uploaded |-> FALSE, signed |-> FALSE, answer |-> "none"]

\* try: <outcome>  except Exception: return fallback
CatchIn(outcome, fallback) ==
    IF outcome.exc
    THEN [outcome EXCEPT !.exc = FALSE, !.val = fallback, !.caught = TRUE]
    ELSE outcome

\* The standard client chosen for a write, whatever the privileged handle holds.
write_client_standard_only(h) == h.supabase

\* client = self.service_client or self.supabase
write_client(h) == IF h.service_client # "None" THEN h.service_client ELSE h.supabase

IdsOf(table) == { table[i].id : i \in 1 .. Len(table) }

\* The id the store gives a row inserted without one: the least unused one.
FreshId(table) ==
    ToString(CHOOSE i \in 1 .. Len(table) + 1 :
                /\ ToString(i) \notin IdsOf(table)
                /\ \A j \in 1 .. i - 1 : ToString(j) \in IdsOf(table))

\* asset_data.get('id'): a dict without the key has none.
GivenId(asset_data) == IF "id" \in DOMAIN asset_data THEN asset_data.id ELSE None

\* The row the store keeps for an inserted asset_data: its columns, under
\* its own id or the one the store assigns.
InsertedRow(table, asset_data) ==
    LET id == IF GivenId(asset_data) = None THEN FreshId(table) ELSE GivenId(asset_data)[1]
        row == Row(id, asset_data.name)
    IN  [f \in DOMAIN row |->
            IF f \in DOMAIN asset_data /\ f # "id" THEN asset_data[f] ELSE row[f]]

\* update(update_data): the columns update_data names are overwritten.
UpdatedRow(row, update_data) ==
    [f \in DOMAIN row |-> IF f \in DOMAIN update_data THEN update_data[f] ELSE row[f]]

\* The body of create_asset's try block.
create_asset_try(w, asset_data, env) ==
    LET h == ensure_clients_in(w, env)
        client == write_client(h)
    IN  IF client = "None" THEN Outcome(FALSE, None, h, TRUE, "None")
        ELSE IF ~env.net_ok THEN Outcome(TRUE, None, h, TRUE, client)
        ELSE IF GivenId(asset_data) # None /\ GivenId(asset_data)[1] \in IdsOf(w.store)
             THEN Outcome(TRUE, None, h, TRUE, client)   \* duplicate primary key
        ELSE LET row == InsertedRow(w.store, asset_data)
             IN  Outcome(FALSE, Some(row), [h EXCEPT !.store = Append(@, row)],
                         TRUE, client)

\* SupabaseManager.create_asset
create_asset_in(w, asset_data, env) == CatchIn(create_asset_try(w, asset_data, env), None)

\* The body of get_asset's try block.
get_asset_in_try(w, asset_id, env) ==
    LET h == ensure_clients_in(w, env)
    IN  IF h.supabase = "None" THEN Outcome(FALSE, None, h, TRUE, "None")
        ELSE IF ~env.net_ok THEN Outcome(TRUE, None, h, TRUE, h.supabase)
        ELSE LET data == select_eq_id(w.store, asset_id)
             IN  Outcome(FALSE, IF data # <<>> THEN Some(data[1]) ELSE None,
                         h, TRUE, h.supabase)

\* SupabaseManager.get_asset
get_asset_in(w, asset_id, env) == CatchIn(get_asset_in_try(w, asset_id, env), None)

\* The body of list_assets's try block.
list_assets_in_try(w, asset_type, limit, env) ==
    LET h == ensure_clients_in(w, env)
    IN  IF h.supabase = "None" THEN Outcome(FALSE, <<>>, h, TRUE, "None")
        ELSE IF ~env.net_ok THEN Outcome(TRUE, None, h, TRUE, h.supabase)
        ELSE LET query == IF asset_type # None
                          THEN select_eq_type(w.store, asset_type[1])
                          ELSE w.store
             IN  Outcome(FALSE, limit_rows(query, limit), h, TRUE, h.supabase)

\* SupabaseManager.list_assets
list_assets_in(w, asset_type, limit, env) ==
    CatchIn(list_assets_in_try(w, asset_type, limit, env), <<>>)

\* The body of update_asset's try block.
update_asset_try(w, asset_id, update_data, env) ==
    LET h == ensure_clients_in(w, env)
        client == write_client(h)
    IN  IF client = "None" THEN Outcome(FALSE, None, h, TRUE, "None")
        ELSE IF ~env.net_ok THEN Outcome(TRUE, None, h, TRUE, client)
        ELSE LET table == [i \in 1 .. Len(w.store) |->
                              IF w.store[i].id = asset_id
                              THEN UpdatedRow(w.store[i], update_data)
                              ELSE w.store[i]]
                 data == select_eq_id(table, asset_id)
             IN  Outcome(FALSE, IF data # <<>> THEN Some(data[1]) ELSE None,
                         [h EXCEPT !.store = table], TRUE, client)

\* update_asset with the except clause left out.
update_asset_uncaught(w, asset_id, update_data, env) ==
    update_asset_try(w, asset_id, update_data, env)

\* SupabaseManager.update_asset
update_asset_in(w, asset_id, update_data, env) ==
    CatchIn(update_asset_try(w, asset_id, update_data, env), None)

\* delete().eq('id', asset_id) carried out by the store.
deleted_from(table, asset_id) == SelectSeq(table, LAMBDA row : row.id # asset_id)

\* delete_asset answering by whether the store returned a deleted row.
delete_asset_try_by_rows(w, asset_id, env, applied) ==
    LET h == ensure_clients_in(w, env)
        client == write_client(h)
    IN  IF client = "None" THEN Outcome(FALSE, FALSE, h, TRUE, "None")
        ELSE IF ~env.net_ok
             THEN Outcome(TRUE, None,
                          IF applied THEN [h EXCEPT !.store = deleted_from(@, asset_id)]
                          ELSE h,
                          TRUE, client)
        ELSE Outcome(FALSE, asset_id \in IdsOf(w.store),
                     [h EXCEPT !.store = deleted_from(@, asset_id)], TRUE, client)

\* The body of delete_asset's try block.  execute() raises either before the
\* store carried the delete out (no connection, a refusal) or after it did
\* (the answer is lost or cannot be read): applied tells which.
delete_asset_try(w, asset_id, env, applied) ==
    LET h == ensure_clients_in(w, env)
        client == write_client(h)
    IN  IF client = "None" THEN Outcome(FALSE, FALSE, h, TRUE, "None")
        ELSE IF ~env.net_ok
             THEN Outcome(TRUE, None,
                          IF applied THEN [h EXCEPT !.store = deleted_from(@, asset_id)]
                          ELSE h,
                          TRUE, client)
        ELSE Outcome(FALSE, TRUE,
                     [h EXCEPT !.store = deleted_from(@, asset_id)], TRUE, client)

\* SupabaseManager.delete_asset
delete_asset_in(w, asset_id, env, applied) ==
    CatchIn(delete_asset_try(w, asset_id, env, applied), FALSE)

\* A string is the sequence of the pieces its f-string joins; "" has none.
Str(pieces) == [str |-> pieces]
EmptyStr == Str(<<>>)
supabase_url == "{supabase_url}"

\* f"{self.supabase_url}/storage/v1/object/public/{bucket_name}/{remote_path}"
public_url(bucket_name, remote_path) ==
    Str(<<supabase_url, "/storage/v1/object/public/", bucket_name, "/", remote_path>>)

\* The URL a 200 answer of the sign endpoint carries.
signed_url(bucket_name, remote_path) ==
    Str(<<supabase_url, "/storage/v1/object/sign/", bucket_name, "/", remote_path, "?token">>)

\* What the environment does during an upload, on top of Envs: whether the
\* local file opens, whether the upload answer is non-empty, whether the
\* module-level name `requests` is bound (http_ok; the import decides it), and what the
\* sign endpoint does: "signed" (200 with a signed URL), "empty" (200 without
\* one), "refused" (another status) or "raise".
SignAnswers == {"signed", "empty", "refused", "raise"}
UploadEnvs ==
    [anon_ok : BOOLEAN, service_ok : BOOLEAN, net_ok : BOOLEAN,
     file_ok : BOOLEAN, resp_ok : BOOLEAN, http_ok : BOOLEAN, sign : SignAnswers]

\* The signing step returning the signed-URL field of a 200 answer without
\* looking whether it holds anything.
sign_step_unchecked(bucket_name, remote_path, env) ==
    IF ~env.http_ok THEN Some(public_url(bucket_name, remote_path))
    ELSE IF env.sign = "signed" THEN Some(signed_url(bucket_name, remote_path))
    ELSE IF env.sign = "empty" THEN Some(EmptyStr)
    ELSE None

\* The inner try block: the URL the signing step returns, None when it falls
\* through to `return public_url`.
sign_step(bucket_name, remote_path, env) ==
    IF ~env.http_ok THEN Some(public_url(bucket_name, remote_path))
    ELSE IF env.sign = "signed" THEN Some(signed_url(bucket_name, remote_path))
    ELSE None   \* 200 without a URL, another status, or an exception caught

\* The signing step gated by the configured key instead of the client.
sign_wanted_by_key(h) == service_role_key

\* if self.service_client: the privileged credential gates the signing step.
sign_wanted(h) == h.service_client # "None"

\* The body of upload_file_to_storage's try block.
upload_file_try(w, bucket_name, remote_path, env) ==
    IF ~env.file_ok THEN Outcome(TRUE, None, w, FALSE, "None")   \* open() raises
    ELSE
    LET h == ensure_clients_in(w, env)
        client == write_client(h)
    IN  IF client = "None" THEN Outcome(FALSE, None, h, TRUE, "None")
        ELSE IF ~env.net_ok THEN Outcome(TRUE, None, h, TRUE, client)
        ELSE IF ~env.resp_ok THEN Outcome(FALSE, None, h, TRUE, client)
        ELSE LET up == [Outcome(FALSE, None, h, TRUE, client) EXCEPT !.uploaded = TRUE]
             IN  IF sign_wanted(h)
                 THEN LET url == sign_step(bucket_name, remote_path, env)
                      IN  [up EXCEPT !.signed = env.http_ok,
                                     !.answer = IF env.http_ok THEN env.sign ELSE "no_http",
                                     !.val = IF url # None THEN url
                                             ELSE Some(public_url(bucket_name, remote_path))]
                 ELSE [up EXCEPT !.val = Some(public_url(bucket_name, remote_path))]

\* SupabaseManager.upload_file_to_storage
upload_file_to_storage_in(w, bucket_name, remote_path, env) ==
    CatchIn(upload_file_try(w, bucket_name, remote_path, env), None)

\* SupabaseManager.get_public_url: no try block.  The storage client's
\* get_public_url joins the same template locally, without a request.
get_public_url_in(w, bucket_name, file_path, env) ==
    LET h == ensure_clients_in(w, env)
    IN  IF h.supabase = "None" THEN Outcome(FALSE, EmptyStr, h, TRUE, "None")
        ELSE Outcome(FALSE, public_url(bucket_name, file_path), h, TRUE, h.supabase)

\* The record kept of a direct call: the outcome and the handles before it.
ManagerCall(op, arg, o) ==
    [op |-> op, arg |-> arg, ret |-> o.val, raised |-> o.exc,
     ensured |-> o.ensured, used |-> o.used, uploaded |-> o.uploaded,
     signed |-> o.signed, answer |-> o.answer, caught |-> o.caught,
     tried_anon |-> o.ensured /\ constructs_standard(World),
     tried_service |-> o.ensured /\ constructs_privileged(World)]

NoManagerCall ==
    [op |-> "none", arg |-> None, ret |-> None, raised |-> FALSE,
     ensured |-> FALSE, used |-> "None", uploaded |-> FALSE, signed |-> FALSE,
     answer |-> "none", caught |-> FALSE,
     tried_anon |-> FALSE, tried_service |-> FALSE]

\* The state of the parts of the program a specification leaves alone.
ManagerIdle ==
    /\ mgr = NoManagerCall
    /\ attempted = [anon |-> FALSE, service |-> FALSE]

SketchIdle ==
    /\ db = <<>>
    /\ assigned = <<>>
    /\ drawer_first = None

MetaIdle ==
    /\ metadata = <<>>
    /\ meta_last = [op |-> "none"]

InitGateway ==
    /\ request = NoRequest
    /\ result = Pending
    /\ supabase = "None"
    /\ service_client = "None"
    /\ service_role_key \in BOOLEAN
    /\ store \in Stores
    /\ last = NoCall
    /\ ManagerIdle
    /\ SketchIdle
    /\ MetaIdle

UseClients(env) ==
    /\ supabase' = ensure_clients(env).supabase
    /\ service_client' = ensure_clients(env).service_client

Handle_get_asset ==
    \E asset_id \in LookupIds, env \in Envs :
        LET outcome == SupabaseManager_get_asset(asset_id, env)
        IN  /\ request' = [op |-> "get_asset", payload |-> asset_id]
            /\ last' = Call("get_asset", asset_id, outcome, env)
            /\ result' = get_asset(outcome)
            /\ UseClients(env)
            /\ UNCHANGED <<service_role_key, store, managerVars, sketchVars, metaVars>>

Handle_list_assets ==
    \E asset_type \in AssetTypes, limit \in Limits, env \in Envs :
        LET outcome == SupabaseManager_list_assets(asset_type, limit, env)
        IN  /\ request' = [op |-> "list_assets",
                           payload |-> [asset_type |-> asset_type, limit |-> limit]]
            /\ last' = Call("list_assets", asset_type, outcome, env)
            /\ result' = list_assets(outcome)
            /\ UseClients(env)
            /\ UNCHANGED <<service_role_key, store, managerVars, sketchVars, metaVars>>

NextGateway ==
    \/ Handle_get_asset
    \/ Handle_list_assets

SpecGateway == InitGateway /\ [][NextGateway]_vars

----------------------------------------------------------------------------
(* Direct calls of the SupabaseManager methods as actions *)

\* asset_data of a create_asset call: with or without an id of its own.
NewAssets == { [id |-> i, name |-> n] : i \in {None, Some("1")}, n \in AssetNames }

\* update_data of an update_asset call: the two payloads of the upload script.
UpdateDatas ==
    { [skp_base64 |-> Some("b64")],
      [name |-> "balcao_simples", type |-> "furniture", skp_base64 |-> Some("b64")] }


InitManager ==
    /\ request = NoRequest
    /\ result = Pending
    /\ supabase = "None"
    /\ service_client = "None"
    /\ service_role_key \in BOOLEAN
    /\ store \in Stores
    /\ last = NoCall
    /\ mgr = NoManagerCall
    /\ attempted = [anon |-> FALSE, service |-> FALSE]
    /\ SketchIdle
    /\ MetaIdle

\* The environments that differ in a way the call can see: create_client is
\* only called for a handle _ensure_clients constructs, so its outcome is
\* fixed to success where it is not called.
EnvsFor(w) ==
    { env \in Envs :
        /\ ~constructs_standard(w) => env.anon_ok
        /\ ~constructs_privileged(w) => env.service_ok }

CallEnvs == EnvsFor(World)

\* The same for an upload: a step that is not reached has its outcome fixed.
CallUploadEnvs ==
    { env \in UploadEnvs :
        /\ (~env.file_ok \/ ~constructs_standard(World)) => env.anon_ok
        /\ (~env.file_ok \/ ~constructs_privileged(World)) => env.service_ok
        /\ ~env.file_ok => env.net_ok
        /\ (~env.file_ok \/ ~env.net_ok) => env.resp_ok
        /\ (~env.file_ok \/ ~env.net_ok \/ ~env.resp_ok)
               => (env.http_ok /\ env.sign = "signed")
        /\ ~env.http_ok => env.sign = "signed" }

\* One call with outcome o: the handles and the table become those of o.w.
ManagerStep(op, arg, o) ==
    /\ mgr' = ManagerCall(op, arg, o)
    /\ attempted' = [anon |-> attempted.anon \/ (o.ensured /\ constructs_standard(World)),
                     service |-> attempted.service
                                 \/ (o.ensured /\ constructs_privileged(World))]
    /\ supabase' = o.w.supabase
    /\ service_client' = o.w.service_client
    /\ store' = o.w.store
    /\ UNCHANGED <<service_role_key, last, handlerVars, sketchVars, metaVars>>

Call_create_asset ==
    \E asset_data \in NewAssets, env \in CallEnvs :
        /\ Len(store) < MaxAssets
        /\ \E o \in { create_asset_in(World, asset_data, env) } :
               ManagerStep("create_asset", asset_data, o)

Call_get_asset ==
    \E asset_id \in LookupIds, env \in CallEnvs :
        \E o \in { get_asset_in(World, asset_id, env) } :
            ManagerStep("get_asset", asset_id, o)

Call_list_assets ==
    \E asset_type \in AssetTypes, limit \in Limits, env \in CallEnvs :
        \E o \in { list_assets_in(World, asset_type, limit, env) } :
            ManagerStep("list_assets", asset_type, o)

Call_update_asset ==
    \E asset_id \in LookupIds, update_data \in UpdateDatas, env \in CallEnvs :
        \E o \in { update_asset_in(World, asset_id, update_data, env) } :
            ManagerStep("update_asset", asset_id, o)

Call_delete_asset ==
    \E asset_id \in LookupIds, env \in CallEnvs, applied \in BOOLEAN :
        /\ env.net_ok => applied
        /\ \E o \in { delete_asset_in(World, asset_id, env, applied) } :
               ManagerStep("delete_asset", asset_id, o)

Call_upload_file_to_storage ==
    \E env \in CallUploadEnvs :
        \E o \in { upload_file_to_storage_in(World, "assets", "balcao.skp", env) } :
            ManagerStep("upload_file_to_storage", <<"assets", "balcao.skp">>, o)

Call_get_public_url ==
    \E env \in CallEnvs :
        \E o \in { get_public_url_in(World, "assets", "balcao.skp", env) } :
            ManagerStep("get_public_url", <<"assets", "balcao.skp">>, o)

NextManager ==
    \/ Call_create_asset
    \/ Call_get_asset
    \/ Call_list_assets
    \/ Call_update_asset
    \/ Call_delete_asset
    \/ Call_upload_file_to_storage
    \/ Call_get_public_url

SpecManager == InitManager /\ [][NextManager]_vars

----------------------------------------------------------------------------
(* upload_balcao_to_supabase (supabase_upload.py) *)

\* local_file: absent, present but failing to open or read, or read.
FileStates == {"missing", "unreadable", "ok"}

\* asset_data and new_asset_data: the columns the script writes.
asset_data == [skp_base64 |-> Some("b64")]
new_asset_data ==
    [name |-> "balcao_simples", type |-> "furniture", version |-> "1.0",
     skp_base64 |-> Some("b64")]

\* The first asset of the list, whatever its name.
find_first(assets) == IF assets = <<>> THEN None ELSE Some(Head(assets))

\* for asset in assets: if asset.get('name') == 'balcao_simples': ... break
find_by_name(assets) ==
    LET named == SelectSeq(assets, LAMBDA asset : asset.name = "balcao_simples")
    IN  IF named = <<>> THEN None ELSE Some(Head(named))

\* One run of the script on world w: what it returned, the world it left,
\* the asset each search found, what create_asset returned, whether the list
\* was read again, the id update_asset was called with and what it returned.
Run(w, file) ==
    [op |-> "upload_balcao", ret |-> None, raised |-> FALSE, caught |-> FALSE,
     w |-> w, file |-> file, listed |-> FALSE, found |-> None, created |-> None,
     inserted |-> FALSE, relisted |-> FALSE, refound |-> None, target |-> None,
     updated |-> None]

\* updated_asset = supabase_manager.update_asset(balcao_asset['id'], data)
\* return balcao_asset['id'] if updated_asset else None
update_found(w, balcao_asset, data, run) ==
    { [run EXCEPT !.w = o.w,
                  !.target = Some(balcao_asset.id),
                  !.updated = o.val,
                  !.ret = IF o.val # None THEN Some(balcao_asset.id) ELSE None] :
        o \in { update_asset_in(w, balcao_asset.id, data, env) : env \in EnvsFor(w) } }

\* The branch taken when create_asset returned no result.
update_after_failed_create(w, run) ==
    UNION { LET balcao_asset == find_by_name(assets.val)
                again == [run EXCEPT !.w = assets.w, !.relisted = TRUE,
                                     !.refound = balcao_asset]
            IN  IF balcao_asset # None
                THEN update_found(assets.w, balcao_asset[1], new_asset_data, again)
                ELSE { again } :
            assets \in { list_assets_in(w, None, 100, env) : env \in EnvsFor(w) } }

\* The branch taken when the first search found no asset.
create_or_update(w, run) ==
    UNION { IF created_asset.val # None
            THEN { [run EXCEPT !.w = created_asset.w,
                               !.created = created_asset.val,
                               !.inserted = TRUE,
                               !.ret = Some(created_asset.val[1].id)] }
            ELSE update_after_failed_create(created_asset.w, run) :
            created_asset \in { create_asset_in(w, new_asset_data, env) :
                                  env \in EnvsFor(w) } }

\* The runs the script can make on world w, by what the file system and each
\* call of the manager do.
upload_balcao_to_supabase(w, file) ==
    IF file = "missing" THEN { Run(w, file) }
    ELSE IF file = "unreadable" THEN { [Run(w, file) EXCEPT !.caught = TRUE] }
    ELSE UNION { LET balcao_asset == find_by_name(assets.val)
                     run == [Run(assets.w, file) EXCEPT !.listed = TRUE,
                                                        !.found = balcao_asset]
                 IN  IF balcao_asset # None
                     THEN update_found(assets.w, balcao_asset[1], asset_data, run)
                     ELSE create_or_update(assets.w, run) :
                 assets \in { list_assets_in(w, None, 100, env) : env \in EnvsFor(w) } }

Named(table) == { i \in 1 .. Len(table) : table[i].name = "balcao_simples" }

\* The record kept of a run: the run without its world, and how many assets
\* named balcao_simples the store held when it started.
RunRecord(run) ==
    [f \in (DOMAIN run \ {"w"}) \cup {"named_before"} |->
        IF f = "named_before" THEN Cardinality(Named(store)) ELSE run[f]]

\* The store holds at most one asset named balcao_simples when the script is
\* first run.
InitUpload ==
    /\ request = NoRequest
    /\ result = Pending
    /\ supabase = "None"
    /\ service_client = "None"
    /\ service_role_key \in BOOLEAN
    /\ store \in { t \in Stores : Cardinality(Named(t)) <= 1 }
    /\ last = NoCall
    /\ ManagerIdle
    /\ SketchIdle
    /\ MetaIdle

Run_upload_balcao ==
    \E file \in FileStates :
        \E run \in upload_balcao_to_supabase(World, file) :
            /\ Len(run.w.store) <= MaxAssets
            /\ mgr' = RunRecord(run)
            /\ attempted' = [anon |-> attempted.anon
                                      \/ (run.listed /\ constructs_standard(World)),
                             service |-> attempted.service
                                         \/ (run.listed /\ constructs_privileged(World))]
            /\ supabase' = run.w.supabase
            /\ service_client' = run.w.service_client
            /\ store' = run.w.store
            /\ UNCHANGED <<service_role_key, last, handlerVars, sketchVars, metaVars>>

NextUpload == Run_upload_balcao

SpecUpload == InitUpload /\ [][NextUpload]_vars

----------------------------------------------------------------------------
(* SKPProcessor.save_asset_metadata (skp_processor.py) *)

\* all_assets: the JSON object of the metadata file, as its (key, value)
\* pairs in insertion order.  No key occurs twice.
KeysOf(all_assets) == { all_assets[i].key : i \in 1 .. Len(all_assets) }

\* all_assets[key] = value
dict_set(all_assets, key, value) ==
    IF key \in KeysOf(all_assets)
    THEN [i \in 1 .. Len(all_assets) |->
             IF all_assets[i].key = key THEN [key |-> key, value |-> value]
             ELSE all_assets[i]]
    ELSE Append(all_assets, [key |-> key, value |-> value])

\* while str(asset_id) in all_assets: asset_id += 1
RECURSIVE skip_taken(_, _)
skip_taken(all_assets, asset_id) ==
    IF ToString(asset_id) \in KeysOf(all_assets)
    THEN skip_taken(all_assets, asset_id + 1)
    ELSE asset_id

\* The id taken from the number of entries alone.
next_asset_id_by_count(all_assets) == Len(all_assets) + 1

\* asset_id = len(all_assets) + 1, then the while loop.
next_asset_id(all_assets) == skip_taken(all_assets, Len(all_assets) + 1)

\* asset_data['id'] = asset_id
with_id(data, asset_id) ==
    [f \in DOMAIN data \cup {"id"} |-> IF f = "id" THEN asset_id ELSE data[f]]

save_asset_metadata(all_assets, data) ==
    LET asset_id == next_asset_id(all_assets)
    IN  [all_assets |-> dict_set(all_assets, ToString(asset_id), with_id(data, asset_id)),
         ret |-> asset_id]

\* asset_data as process_skp_file builds it.
MetaAssets ==
    { [name |-> "balcao_simples", type |-> "furniture"],
      [name |-> "puxador_standard", type |-> "hardware"],
      [name |-> "gaveta", type |-> "component"] }

InitMetadata ==
    /\ request = NoRequest
    /\ result = Pending
    /\ supabase = "None"
    /\ service_client = "None"
    /\ service_role_key = FALSE
    /\ store = <<>>
    /\ last = NoCall
    /\ ManagerIdle
    /\ SketchIdle
    /\ MetaIdle

Save_asset_metadata ==
    \E data \in MetaAssets :
        \E saved \in { save_asset_metadata(metadata, data) } :
            /\ Len(metadata) < MaxEntries
            /\ saved.ret <= MaxEntries + 1
            /\ metadata' = saved.all_assets
            /\ meta_last' = [op |-> "save", id |-> saved.ret, count |-> Len(metadata)]
            /\ UNCHANGED <<handlerVars, gatewayVars, managerVars, sketchVars>>

\* An entry is removed from the metadata file between two saves.
Remove_metadata_entry ==
    \E i \in 1 .. Len(metadata) :
        /\ metadata' = SelectSeq(metadata, LAMBDA entry : entry.key # metadata[i].key)
        /\ meta_last' = [op |-> "remove", id |-> 0, count |-> Len(metadata)]
        /\ UNCHANGED <<handlerVars, gatewayVars, managerVars, sketchVars>>

NextMetadata ==
    \/ Save_asset_metadata
    \/ Remove_metadata_entry

SpecMetadata == InitMetadata /\ [][NextMetadata]_vars

----------------------------------------------------------------------------
(* The request handlers as actions: the router dispatches on the path. *)

GatewayIdle ==
    /\ supabase = "None"
    /\ service_client = "None"
    /\ service_role_key = FALSE
    /\ store = <<>>
    /\ last = NoCall

Init ==
    /\ request \in DrawerRequests \cup SketchRequests \cup BlockRequests
    /\ result = Pending
    /\ GatewayIdle
    /\ ManagerIdle
    /\ SketchIdle
    /\ MetaIdle

\* The first answer given to each create_drawer payload, in order of arrival.
Remember(first, payload, answer) ==
    IF \E i \in 1 .. Len(first) : first[i].payload = payload
    THEN first
    ELSE Append(first, [payload |-> payload, answer |-> answer])

Handle_create_drawer ==
    /\ request.op = "create_drawer"
    /\ result = Pending
    /\ result' = create_drawer(request.payload)
    /\ drawer_first' = Remember(drawer_first, request.payload, result')
    /\ UNCHANGED <<request, db, assigned, gatewayVars, managerVars, metaVars>>

Handle_post_sketch_caixote ==
    /\ request.op = "post_sketch_caixote"
    /\ result = Pending
    /\ result' = post_sketch_caixote(request.payload)
    /\ UNCHANGED <<request, gatewayVars, managerVars, sketchVars, metaVars>>

Handle_create_block ==
    /\ request.op = "create_block"
    /\ result = Pending
    /\ result' = create_block(request.payload)
    /\ UNCHANGED <<request, gatewayVars, managerVars, sketchVars, metaVars>>

Next ==
    \/ Handle_create_drawer
    \/ Handle_post_sketch_caixote
    \/ Handle_create_block

Spec == Init /\ [][Next]_vars

----------------------------------------------------------------------------
(* The persisted sketches: create_sketch, post_teste, get_sketch           *)
(* (app/routes/teste.py) on the table dimensoes (app/models/db_models.py)  *)

\* Dimensoes: id is 0 until the database sets it, the three columns are Float.
Dimensoes(id, largura, altura, profundidade) ==
    [id |-> id, largura |-> largura, altura |-> altura, profundidade |-> profundidade]

DimensoesCreate(largura, altura, profundidade) ==
    [largura |-> largura, altura |-> altura, profundidade |-> profundidade]

\* DimensoesResponse, read from the attributes of the row.
DimensoesResponse(registro) ==
    [id |-> registro.id, largura |-> registro.largura, altura |-> registro.altura,
     profundidade |-> registro.profundidade]

\* An int written to a Float column is read back as the float of that value.
FloatOfInt(n) == Mm(n)

RECURSIVE MaxId(_)
MaxId(table) ==
    IF table = <<>> THEN 0
    ELSE LET rest == MaxId(Tail(table))
         IN  IF Head(table).id > rest THEN Head(table).id ELSE rest

\* db.add(registro); db.commit(); db.refresh(registro): the row is appended
\* under the next integer primary key and read back.
db_add(table, registro) ==
    LET stored == [registro EXCEPT !.id = MaxId(table) + 1]
    IN  [table |-> Append(table, stored), registro |-> stored]

\* db.query(Dimensoes).filter(Dimensoes.id == sketch_id).first()
db_first(table, sketch_id) ==
    LET found == SelectSeq(table, LAMBDA row : row.id = sketch_id)
    IN  IF found = <<>> THEN None ELSE Some(Head(found))

\* The record stored with altura and profundidade exchanged, as the display
\* triple of post_sketch_caixote is.
create_sketch_swapped(table, payload) ==
    LET saved == db_add(table, Dimensoes(0, FloatOfInt(payload.largura),
                                         FloatOfInt(payload.profundidade),
                                         FloatOfInt(payload.altura)))
    IN  [table |-> saved.table, answer |-> Ok(DimensoesResponse(saved.registro))]

create_sketch(table, payload) ==
    LET saved == db_add(table, Dimensoes(0, FloatOfInt(payload.largura),
                                         FloatOfInt(payload.altura),
                                         FloatOfInt(payload.profundidade)))
    IN  [table |-> saved.table, answer |-> Ok(DimensoesResponse(saved.registro))]

post_teste(table, payload) ==
    LET saved == db_add(table, Dimensoes(0, payload.largura, payload.altura,
                                         payload.profundidade))
    IN  [table |-> saved.table, answer |-> Ok(DimensoesResponse(saved.registro))]

get_sketch(table, sketch_id) ==
    LET registro == db_first(table, sketch_id)
    IN  IF registro = None
        THEN HTTPException(404, "Sketch not found")
        ELSE Ok(DimensoesResponse(registro[1]))

\* Bodies of POST /teste/sketches (int fields) and of POST /teste (floats).
SketchPayloads ==
    { SketchDimensions(1, 2, 3), SketchDimensions(2, 2, 2), SketchDimensions(0, 0 - 1, 5) }

TestePayloads ==
    { DimensoesCreate(Mm(100), Mm(50), Mm(25)), DimensoesCreate(15, 25, 35) }

SketchIds == 0 .. (MaxRows + 1)

\* What a create call was given, as the floats the columns hold, and what it
\* returned.
Assigned(largura, altura, profundidade, answer) ==
    [largura |-> largura, altura |-> altura, profundidade |-> profundidade,
     answer |-> answer]

InitSketches ==
    /\ request = NoRequest
    /\ result = Pending
    /\ GatewayIdle
    /\ ManagerIdle
    /\ SketchIdle
    /\ MetaIdle

Handle_create_sketch ==
    \E payload \in SketchPayloads :
        \E saved \in { create_sketch(db, payload) } :
            /\ Len(db) < MaxRows
            /\ request' = [op |-> "create_sketch", payload |-> payload]
            /\ result' = saved.answer
            /\ db' = saved.table
            /\ assigned' = Append(assigned,
                                  Assigned(FloatOfInt(payload.largura),
                                           FloatOfInt(payload.altura),
                                           FloatOfInt(payload.profundidade),
                                           saved.answer))
            /\ UNCHANGED <<drawer_first, gatewayVars, managerVars, metaVars>>

Handle_post_teste ==
    \E payload \in TestePayloads :
        \E saved \in { post_teste(db, payload) } :
            /\ Len(db) < MaxRows
            /\ request' = [op |-> "post_teste", payload |-> payload]
            /\ result' = saved.answer
            /\ db' = saved.table
            /\ assigned' = Append(assigned,
                                  Assigned(payload.largura, payload.altura,
                                           payload.profundidade, saved.answer))
            /\ UNCHANGED <<drawer_first, gatewayVars, managerVars, metaVars>>

Handle_get_sketch ==
    \E sketch_id \in SketchIds :
        /\ request' = [op |-> "get_sketch", payload |-> sketch_id]
        /\ result' = get_sketch(db, sketch_id)
        /\ UNCHANGED <<sketchVars, gatewayVars, managerVars, metaVars>>

NextSketches ==
    \/ Handle_create_sketch
    \/ Handle_post_teste
    \/ Handle_get_sketch

SpecSketches == InitSketches /\ [][NextSketches]_vars

----------------------------------------------------------------------------
(* create_drawer called repeatedly, between sketch and asset requests *)

PurityPayloads ==
    { AssemblyDefinition(Mm(500), Mm(300), Mm(400), TRUE, TRUE),
      AssemblyDefinition(Mm(100), Mm(100), Mm(100), FALSE, TRUE) }

InitPurity ==
    /\ request = NoRequest
    /\ result = Pending
    /\ supabase = "None"
    /\ service_client = "None"
    /\ service_role_key = FALSE
    /\ store = << Row("1", "balcao_simples") >>
    /\ last = NoCall
    /\ ManagerIdle
    /\ SketchIdle
    /\ MetaIdle

\* POST /teste/create_drawer arrives; the router has not dispatched it yet.
Receive_create_drawer ==
    \E payload \in PurityPayloads :
        /\ result # Pending
        /\ request' = [op |-> "create_drawer", payload |-> payload]
        /\ result' = Pending
        /\ UNCHANGED <<sketchVars, gatewayVars, managerVars, metaVars>>

NextPurity ==
    \/ Receive_create_drawer
    \/ Handle_create_drawer
    \/ Handle_create_sketch
    \/ Handle_get_asset

SpecPurity == InitPurity /\ [][NextPurity]_vars

----------------------------------------------------------------------------
(* Properties of the request handlers, checked under Spec *)

Answered(op) == request.op = op /\ result # Pending

\* The part list of a drawer answer.
PartsOf(res) == res.body[1].parts

PartNamed(parts, name, quantity, dimensions) ==
    \E i \in 1 .. Len(parts) :
        /\ parts[i].name = name
        /\ parts[i].quantity = quantity
        /\ parts[i].dimensions = dimensions

Without(parts, names) == SelectSeq(parts, LAMBDA part : part.name \notin names)

NamesOf(parts) == [i \in 1 .. Len(parts) |-> parts[i].name]

PositiveDrawer ==
    /\ request.payload.largura > 0
    /\ request.payload.altura > 0
    /\ request.payload.profundidade > 0

\* C1: for every positive (L, H, D) and every value of the two flags, the part
\* list create_drawer returns contains side_panel x2 with (D, H, 10), back_panel
\* x1 with (L, H, 10), bottom_panel x1 with (L, D, 6) and front_panel x1 with
\* (L, 0.9*H, 18).  The front panel's height h is stated as 10*h = 9*H.
C1_PanelDimensions ==
    (Answered("create_drawer") /\ PositiveDrawer) =>
        LET L == request.payload.largura
            H == request.payload.altura
            D == request.payload.profundidade
            parts == PartsOf(result)
        IN  /\ result.status = 200
            /\ PartNamed(parts, "side_panel", 2,
                   <<[largura |-> D, altura |-> H, profundidade |-> 100]>>)
            /\ PartNamed(parts, "back_panel", 1,
                   <<[largura |-> L, altura |-> H, profundidade |-> 100]>>)
            /\ PartNamed(parts, "bottom_panel", 1,
                   <<[largura |-> L, altura |-> D, profundidade |-> 60]>>)
            /\ \E i \in 1 .. Len(parts) :
                   /\ parts[i].name = "front_panel"
                   /\ parts[i].quantity = 1
                   /\ Len(parts[i].dimensions) = 1
                   /\ parts[i].dimensions[1].largura = L
                   /\ 10 * parts[i].dimensions[1].altura = 9 * H
                   /\ parts[i].dimensions[1].profundidade = 180

\* A drawer 100 x 200 x 300 mm without handle and with screws was answered.
C1_Witness ==
    /\ Answered("create_drawer")
    /\ request.payload = [largura |-> 1000, altura |-> 2000, profundidade |-> 3000,
                          include_handle |-> FALSE, include_screws |-> TRUE]
    /\ PartNamed(PartsOf(result), "side_panel", 2,
           <<[largura |-> 3000, altura |-> 2000, profundidade |-> 100]>>)

\* C2: include_handle=false removes exactly the part named handle from the list
\* returned with include_handle=true, include_screws=false removes exactly
\* screw_pan_head and cam_lock; every other part keeps its content and relative
\* order, and each flag acts the same whatever the other flag is.
C2_FlagsRemoveExactly ==
    Answered("create_drawer") =>
        LET p == request.payload
            parts == PartsOf(result)
            noHandle == PartsOf(create_drawer([p EXCEPT !.include_handle = FALSE]))
            noScrews == PartsOf(create_drawer([p EXCEPT !.include_screws = FALSE]))
        IN  /\ p.include_handle =>
                /\ noHandle = Without(parts, {"handle"})
                /\ Len(parts) = Len(noHandle) + 1
            /\ p.include_screws =>
                /\ noScrews = Without(parts, {"screw_pan_head", "cam_lock"})
                /\ Len(parts) = Len(noScrews) + 2
                /\ {"screw_pan_head", "cam_lock"} \subseteq
                       { parts[i].name : i \in 1 .. Len(parts) }
            /\ ~p.include_handle => Without(parts, {"handle"}) = parts
            /\ ~p.include_screws => Without(parts, {"screw_pan_head", "cam_lock"}) = parts

\* A drawer with the handle and without the screws was answered: 8 parts.
C2_Witness ==
    /\ Answered("create_drawer")
    /\ request.payload.include_handle
    /\ ~request.payload.include_screws
    /\ Len(PartsOf(result)) = 8
    /\ request.payload.largura # request.payload.profundidade

CategoryRank(type) ==
    CASE type = "panel" -> 1
      [] type = "hardware" -> 2
      [] type = "fastener" -> 3
      [] type = "consumable" -> 4
      [] OTHER -> 0

\* C3: in every part list create_drawer returns the parts are grouped by
\* category in the order panel, hardware, fastener, consumable: no part of a
\* later category precedes a part of an earlier one.
C3_CategoryOrder ==
    Answered("create_drawer") =>
        LET parts == PartsOf(result)
        IN  \A i \in 1 .. Len(parts) : \A j \in 1 .. Len(parts) :
                i < j => /\ CategoryRank(parts[i].type) >= 1
                         /\ CategoryRank(parts[i].type) <= CategoryRank(parts[j].type)

\* A drawer whose list holds all four categories was answered.
C3_Witness ==
    /\ Answered("create_drawer")
    /\ { PartsOf(result)[i].type : i \in 1 .. Len(PartsOf(result)) }
           = {"panel", "hardware", "fastener", "consumable"}
    /\ ~request.payload.include_handle

\* C4: with both flags true create_drawer returns exactly 10 parts with 10
\* distinct names, in the order side_panel .. glue with quantities
\* 2, 1, 1, 1, 1, 2, 8, 24, 4, 1; ball_bearing, cam_lock and glue carry no
\* dimensions and every quantity is at least 1.
C4_FullDrawer ==
    (Answered("create_drawer") /\ request.payload.include_handle
                               /\ request.payload.include_screws) =>
        LET parts == PartsOf(result)
        IN  /\ Len(parts) = 10
            /\ NamesOf(parts) = <<"side_panel", "back_panel", "bottom_panel",
                                  "front_panel", "handle", "runner", "ball_bearing",
                                  "screw_pan_head", "cam_lock", "glue">>
            /\ Cardinality({ parts[i].name : i \in 1 .. Len(parts) }) = 10
            /\ [i \in 1 .. Len(parts) |-> parts[i].quantity]
                   = <<2, 1, 1, 1, 1, 2, 8, 24, 4, 1>>
            /\ \A i \in 1 .. Len(parts) :
                   /\ parts[i].quantity >= 1
                   /\ parts[i].name \in {"ball_bearing", "cam_lock", "glue"}
                          <=> parts[i].dimensions = <<>>

\* The drawer L=500, H=300, D=400 mm with both flags was answered with its
\* side panels 400 x 300 x 10 mm and its front panel 500 x 270 x 18 mm.
C4_Witness ==
    /\ Answered("create_drawer")
    /\ request.payload = [largura |-> 5000, altura |-> 3000, profundidade |-> 4000,
                          include_handle |-> TRUE, include_screws |-> TRUE]
    /\ PartNamed(PartsOf(result), "side_panel", 2,
           <<[largura |-> 4000, altura |-> 3000, profundidade |-> 100]>>)
    /\ PartNamed(PartsOf(result), "front_panel", 1,
           <<[largura |-> 5000, altura |-> 2700, profundidade |-> 180]>>)

\* C5: post_sketch_caixote returns x = largura, y = profundidade, z = altura
\* for every input, L = H = D included.
C5_AxisSwap ==
    Answered("post_sketch_caixote") =>
        /\ result.status = 200
        /\ result.body[1].x = request.payload.largura
        /\ result.body[1].y = request.payload.profundidade
        /\ result.body[1].z = request.payload.altura

\* The sketch (1, 2, 3) was answered with y = 3 and z = 2.
C5_Witness ==
    /\ Answered("post_sketch_caixote")
    /\ request.payload = [largura |-> 1, altura |-> 2, profundidade |-> 3]
    /\ result.body[1].y = 3
    /\ result.body[1].z = 2

\* C6: when the faces list is empty or omitted, create_block returns exactly
\* the six faces front, back, left, right, top, bottom in that order, each
\* with color, material and thickness unset.
C6_DefaultFaces ==
    (Answered("create_block") /\ (request.body_faces = <<>> \/ request.body_faces = << <<>> >>)) =>
        LET faces == result.body[1].faces
        IN  /\ result.status = 200
            /\ Len(faces) = 6
            /\ [i \in 1 .. Len(faces) |-> faces[i].name]
                   = <<"front", "back", "left", "right", "top", "bottom">>
            /\ \A i \in 1 .. Len(faces) :
                   /\ faces[i].color = <<>>
                   /\ faces[i].material = <<>>
                   /\ faces[i].thickness = <<>>

\* A block whose body omits the faces field was answered.
C6_Witness ==
    /\ Answered("create_block")
    /\ request.body_faces = <<>>
    /\ Len(result.body[1].faces) = 6

\* C7: when the faces list is non-empty, create_block returns that list
\* unchanged and adds no default entry for a face that was not supplied.
C7_NoMerge ==
    (Answered("create_block") /\ request.body_faces # <<>>
                              /\ request.body_faces[1] # <<>>) =>
        /\ result.status = 200
        /\ result.body[1].faces = request.body_faces[1]
        /\ Len(result.body[1].faces) = Len(request.body_faces[1])

\* The single override [{name: top, color: red}] was answered with a
\* one-element list.
C7_Witness ==
    /\ Answered("create_block")
    /\ request.body_faces = << << [name |-> "top", color |-> <<"red">>,
                                   material |-> <<>>, thickness |-> <<>>] >> >>
    /\ Len(result.body[1].faces) = 1

\* C14: every dimension field (largura, altura, profundidade) of every part
\* in a create_drawer response is non-negative, negative requests being
\* rejected before the handler builds a part list.
C14_PartDimensionsNonNegative ==
    Answered("create_drawer") =>
        /\ result.status = 200 =>
              \A i \in 1 .. Len(PartsOf(result)) :
                  LET dimensions == PartsOf(result)[i].dimensions
                  IN  dimensions # <<>> =>
                          /\ dimensions[1].largura >= 0
                          /\ dimensions[1].altura >= 0
                          /\ dimensions[1].profundidade >= 0
        /\ (\E d \in { request.payload.largura, request.payload.altura,
                       request.payload.profundidade } : d < 0)
              => result.status # 200

\* C17 as stated: the faces of every create_block response are exactly six
\* entries with six distinct names, whatever faces list the request carried.
C17_AlwaysSixDistinctFaces ==
    Answered("create_block") =>
        LET faces == result.body[1].faces
        IN  /\ Len(faces) = 6
            /\ Cardinality({ faces[i].name : i \in 1 .. Len(faces) }) = 6

\* C17 amended: the faces of a create_block response are six entries with six
\* distinct names exactly when the request's faces list is omitted or empty;
\* a non-empty list comes back with the length and the names the request
\* gave, repeated names included.
C17_SixFacesOnlyByDefault ==
    Answered("create_block") =>
        LET faces == result.body[1].faces
            names == { faces[i].name : i \in 1 .. Len(faces) }
            given == request.payload.faces
        IN  IF given = <<>>
            THEN Len(faces) = 6 /\ Cardinality(names) = 6
            ELSE /\ Len(faces) = Len(given)
                 /\ \A i \in 1 .. Len(given) : faces[i].name = given[i].name

\* A request carrying two faces both named top was answered with two
\* entries under one name.
C17_Witness ==
    /\ Answered("create_block")
    /\ Len(request.payload.faces) = 2
    /\ request.payload.faces[1].name = "top"
    /\ request.payload.faces[2].name = "top"
    /\ Len(result.body[1].faces) = 2
    /\ Cardinality({ result.body[1].faces[i].name : i \in 1 .. 2 }) = 1

----------------------------------------------------------------------------
(* Properties of the asset gateway, checked under SpecGateway *)

StoreHolds(asset_id) == \E i \in 1 .. Len(store) : store[i].id = asset_id

\* The last call found no usable store: the standard client could not be
\* constructed, or the remote request raised.
StoreUnavailable == ~last.client \/ ~last.net_ok

\* C8: a point lookup for an id the store does not hold returns NotFound and
\* never throws past the boundary: SupabaseManager.get_asset returns None
\* without raising and the get_asset route answers 404 'Asset not found'.
C8_UnknownIdNotFound ==
    (Answered("get_asset") /\ ~StoreHolds(request.payload)) =>
        /\ last.ret = <<>>
        /\ ~last.raised
        /\ result.status = 404
        /\ result.detail = "Asset not found"
        /\ result.body = <<>>

\* A reachable, non-empty store was asked for an id it does not hold.
C8_Witness ==
    /\ Answered("get_asset")
    /\ ~StoreHolds(request.payload)
    /\ Len(store) > 0
    /\ last.client
    /\ last.net_ok
    /\ result.status = 404

\* C9: when the store is unreachable, SupabaseManager.list_assets returns []
\* without raising and the list_assets route answers an empty list, not an
\* error response.
C9_UnreachableListIsEmpty ==
    (Answered("list_assets") /\ StoreUnavailable) =>
        /\ last.ret = <<>>
        /\ ~last.raised
        /\ result.status = 200
        /\ result.body = << <<>> >>

\* The client exists, the table holds rows, and the remote query raised.
C9_Witness ==
    /\ Answered("list_assets")
    /\ Len(store) > 0
    /\ last.client
    /\ ~last.net_ok
    /\ result.status = 200
    /\ result.body = << <<>> >>

\* C10: for a point lookup, store-unavailable is reported as a signal distinct
\* from not-found: a lookup that found the store unavailable gives its caller
\* an outcome (return value of SupabaseManager.get_asset, or answer of the
\* route) different from that of the preceding lookup, which reached the store
\* and found the id absent.
C10_UnavailableDistinctFromNotFound ==
    [][ ( /\ Answered("get_asset")
          /\ ~StoreUnavailable
          /\ ~StoreHolds(request.payload)
          /\ request'.op = "get_asset"
          /\ (~last'.client \/ ~last'.net_ok) )
        => (last'.ret # last.ret \/ result' # result) ]_vars

----------------------------------------------------------------------------
(* Properties of the SupabaseManager methods, checked under SpecManager *)

\* The call found no client for its request, or a step of it raised and the
\* except clause took over.
CallFailed == mgr.caught \/ (mgr.ensured /\ mgr.used = "None")

\* C11: on store-unavailable no gateway operation raises past its boundary:
\* whichever step fails (client construction, file open, the remote call
\* raising), create_asset, get_asset, update_asset and upload_file_to_storage
\* return None, list_assets returns [], delete_asset returns False and
\* get_public_url returns "", and no exception reaches the caller.
C11_NoRaisePastBoundary ==
    mgr.op # "none" =>
        /\ ~mgr.raised
        /\ CallFailed =>
              IF mgr.op = "delete_asset" THEN mgr.ret = FALSE
              ELSE IF mgr.op = "get_public_url" THEN mgr.ret = [str |-> <<>>]
              ELSE mgr.ret = <<>>

\* An update went through the privileged client, the request raised and the
\* method returned None.
C11_Witness ==
    /\ mgr.op = "update_asset"
    /\ mgr.used = "service"
    /\ mgr.caught
    /\ ~mgr.raised
    /\ mgr.ret = <<>>
    /\ Len(store) > 0

\* C12 as stated: construction of each handle is attempted at most once over
\* any sequence of gateway operations, and the handle is never reassigned
\* after that.
C12_AttemptedAtMostOnce ==
    [][ /\ mgr'.tried_anon => ~attempted.anon
        /\ mgr'.tried_service => ~attempted.service
        /\ attempted.anon => supabase' = supabase
        /\ attempted.service => service_client' = service_client ]_vars

\* C12 amended: each handle is constructed successfully at most once.  A call
\* constructs a handle only while it is None (so a failed construction is
\* repeated by later calls, the privileged one only with service_role_key
\* set), and a handle that holds a client is neither constructed again nor
\* reassigned.
C12_ConstructedOnceThenRead ==
    [][ /\ mgr'.tried_anon => supabase = "None"
        /\ mgr'.tried_service => (service_client = "None" /\ service_role_key)
        /\ supabase # "None" => supabase' = supabase
        /\ service_client # "None" => service_client' = service_client ]_vars

\* Both handles hold a client and the last call only read them.
C12_Witness ==
    /\ mgr.op # "none"
    /\ mgr.ensured
    /\ ~mgr.tried_anon
    /\ ~mgr.tried_service
    /\ supabase = "anon"
    /\ service_client = "service"
    /\ attempted.anon
    /\ attempted.service

\* The privileged credential is configured: the key is set and the service
\* client was constructed.
Privileged == service_role_key /\ service_client = "service"

\* C13: upload_file_to_storage requests a signed URL only when a privileged
\* credential is configured; in every other case where the upload succeeded
\* it returns the public URL built from the template
\* {supabase_url}/storage/v1/object/public/{bucket_name}/{remote_path},
\* without any request to check it.
C13_SignedOnlyWhenPrivileged ==
    mgr.op = "upload_file_to_storage" =>
        /\ mgr.signed => Privileged
        /\ (mgr.uploaded /\ ~Privileged) =>
              /\ ~mgr.signed
              /\ mgr.ret = << [str |-> <<"{supabase_url}", "/storage/v1/object/public/",
                                         "assets", "/", "balcao.skp">>] >>

\* The key is set but the service client could not be constructed; the
\* upload went through the standard client and the public URL came back.
C13_Witness ==
    /\ mgr.op = "upload_file_to_storage"
    /\ service_role_key
    /\ service_client = "None"
    /\ mgr.used = "anon"
    /\ mgr.uploaded
    /\ mgr.ret # <<>>

----------------------------------------------------------------------------
(* Properties of the persisted sketches, checked under SpecSketches *)

\* C15: after any sequence of create_sketch and post_teste calls, every create
\* call returned a stored record carrying the payload's dimensions and an id
\* different from every id returned before it; get_sketch(id) returns exactly
\* that record for every assigned id and 404 'Sketch not found' for an id
\* that was never assigned.
C15_CreatedSketchesReadBack ==
    LET ids == { assigned[i].answer.body[1].id : i \in 1 .. Len(assigned) }
    IN  /\ \A i \in 1 .. Len(assigned) :
               LET registro == assigned[i].answer.body[1]
               IN  /\ assigned[i].answer.status = 200
                   /\ registro.largura = assigned[i].largura
                   /\ registro.altura = assigned[i].altura
                   /\ registro.profundidade = assigned[i].profundidade
                   /\ \A j \in 1 .. (i - 1) : assigned[j].answer.body[1].id # registro.id
                   /\ get_sketch(db, registro.id) = assigned[i].answer
        /\ \A sketch_id \in SketchIds \ ids :
               get_sketch(db, sketch_id) = [status |-> 404, detail |-> "Sketch not found",
                                            body |-> <<>>]
        /\ request.op = "get_sketch" =>
               IF request.payload \in ids
               THEN \E i \in 1 .. Len(assigned) :
                        /\ assigned[i].answer.body[1].id = request.payload
                        /\ result = assigned[i].answer
               ELSE result.status = 404 /\ result.detail = "Sketch not found"

\* Two creates with the same body were given different ids, and the second
\* record was read back by its id.
C15_Witness ==
    /\ Len(assigned) = 3
    /\ assigned[1].answer.body[1].id # assigned[2].answer.body[1].id
    /\ assigned[1].largura = assigned[2].largura
    /\ assigned[1].altura = assigned[2].altura
    /\ assigned[1].profundidade = assigned[2].profundidade
    /\ request.op = "get_sketch"
    /\ request.payload = assigned[2].answer.body[1].id
    /\ result = assigned[2].answer
    /\ result.body[1].altura = Mm(2)
    /\ result.body[1].profundidade = Mm(3)

----------------------------------------------------------------------------
(* Properties of repeated create_drawer calls, checked under SpecPurity *)

\* C16: create_drawer is pure.  A call answers a payload with the response
\* the first call with that payload got, whatever sketch and asset requests
\* ran before or between, and it leaves the stored dimension records, the
\* asset store and the two client handles unchanged.
C16_CreateDrawerPure ==
    [][ (request.op = "create_drawer" /\ result = Pending
            /\ request'.op = "create_drawer" /\ result' # Pending) =>
            /\ db' = db
            /\ store' = store
            /\ supabase' = supabase
            /\ service_client' = service_client
            /\ \A i \in 1 .. Len(drawer_first) :
                   drawer_first[i].payload = request.payload =>
                       result' = drawer_first[i].answer ]_vars

\* The payload answered first was answered again, as the first time, after
\* the other payload was answered in between, with sketches stored and the
\* standard client constructed.
C16_Witness ==
    /\ request.op = "create_drawer"
    /\ result # Pending
    /\ Len(drawer_first) = 2
    /\ drawer_first[1].payload = request.payload
    /\ drawer_first[1].answer = result
    /\ Len(db) = 2
    /\ supabase = "anon"
    /\ Len(store) = 1

----------------------------------------------------------------------------
(* Properties of upload_balcao_to_supabase, checked under SpecUpload *)

\* C18: when no asset named balcao_simples was found and create_asset
\* returned no result, the script lists the assets again and calls
\* update_asset on the asset it finds by name; it returns an id only when an
\* insert or an update returned a record, and then the id of that record's
\* asset; it returns None otherwise, and it never raises.
C18_FallbackUpdateAndReturn ==
    mgr.op = "upload_balcao" =>
        /\ ~mgr.raised
        /\ (mgr.listed /\ mgr.found = <<>> /\ mgr.created = <<>>) =>
              /\ mgr.relisted
              /\ mgr.refound # <<>> =>
                    /\ mgr.refound[1].name = "balcao_simples"
                    /\ mgr.target = << mgr.refound[1].id >>
        /\ mgr.ret # <<>> =>
              \/ mgr.created # <<>> /\ mgr.ret = << mgr.created[1].id >>
              \/ /\ mgr.updated # <<>>
                 /\ mgr.ret = << mgr.updated[1].id >>
                 /\ mgr.updated[1].name = "balcao_simples"
        /\ (mgr.created = <<>> /\ mgr.updated = <<>>) => mgr.ret = <<>>

\* The first list came back empty though the asset exists, the create
\* returned no result, the second list found the asset and the update
\* returned its record.
C18_Witness ==
    /\ mgr.op = "upload_balcao"
    /\ mgr.named_before = 1
    /\ mgr.listed
    /\ mgr.found = <<>>
    /\ mgr.created = <<>>
    /\ mgr.relisted
    /\ mgr.refound # <<>>
    /\ mgr.updated # <<>>
    /\ mgr.ret = << mgr.refound[1].id >>

\* C19: starting from a store with at most one asset named balcao_simples,
\* after any sequence of runs whose list, create and update calls fail
\* independently the store still holds at most one such asset: a run inserts
\* only when no asset with that name exists.
C19_AtMostOneBalcao ==
    /\ Cardinality(Named(store)) <= 1
    /\ (mgr.op = "upload_balcao" /\ mgr.inserted) => mgr.named_before = 0

----------------------------------------------------------------------------
(* Properties of save_asset_metadata, checked under SpecMetadata *)

\* C20: save_asset_metadata assigns an id whose string key was not in the
\* file, adds exactly one entry under that key and leaves the previous
\* entries as they were; over any sequence of saves, also after entries were
\* removed, no entry is overwritten.
C20_SaveNeverOverwrites ==
    [][ (meta_last'.op = "save" /\ metadata' # metadata) =>
            LET key == ToString(meta_last'.id)
            IN  /\ \A i \in 1 .. Len(metadata) : metadata[i].key # key
                /\ Len(metadata') = Len(metadata) + 1
                /\ \A i \in 1 .. Len(metadata) : metadata'[i] = metadata[i]
                /\ metadata'[Len(metadata')].key = key
                /\ metadata'[Len(metadata')].value.id = meta_last'.id ]_vars

\* After removals left the keys "2" and "3" only, a save found 3 taken and
\* stored its entry under "4".
C20_Witness ==
    /\ meta_last.op = "save"
    /\ meta_last.count = 2
    /\ meta_last.id = 4
    /\ Len(metadata) = 3
    /\ metadata[1].key = "2"
    /\ metadata[2].key = "3"
    /\ metadata[3].key = "4"
    /\ metadata[3].value.id = 4

----------------------------------------------------------------------------
(* Properties of the choice of client, checked under SpecManager *)

WriteOps == {"create_asset", "update_asset", "delete_asset", "upload_file_to_storage"}
ReadOps == {"get_asset", "list_assets", "get_public_url"}

\* The client a write goes through, given the handles after _ensure_clients.
WriteThrough ==
    IF service_client # "None" THEN service_client
    ELSE IF supabase # "None" THEN supabase
    ELSE "None"

\* The last call returned the value its method returns on failure.
ReturnedFallback ==
    IF mgr.op = "delete_asset" THEN mgr.ret = FALSE
    ELSE IF mgr.op = "get_public_url" THEN mgr.ret = [str |-> <<>>]
    ELSE mgr.ret = <<>>

\* The read part of C21: a read goes through the standard client only, and
\* reports None / [] / "" whenever the standard client could not be
\* constructed, whatever the privileged handle holds.
ReadsUseStandardOnly ==
    (mgr.op \in ReadOps) =>
        /\ mgr.ensured
        /\ mgr.used = supabase
        /\ supabase = "None" => ReturnedFallback

\* C21 as stated: write operations use the privileged client when it exists
\* and the standard client otherwise, and fail only when neither exists; read
\* operations use only the standard client and report None / [] / ""
\* whenever it could not be constructed, even if the privileged client is
\* available.
C21_WritesFailOnlyWithoutClient ==
    /\ (mgr.op \in WriteOps) =>
          /\ mgr.ensured => mgr.used = WriteThrough
          /\ ReturnedFallback => (supabase = "None" /\ service_client = "None")
    /\ ReadsUseStandardOnly

\* C21 amended: write operations use the privileged client when it exists
\* and the standard client otherwise, and are left without a client only
\* when neither exists, in which case they return None / False; they return
\* None / False as well when a client exists and the request fails.  Read
\* operations are as stated.
C21_ClientChoice ==
    /\ (mgr.op \in WriteOps /\ mgr.ensured) =>
          /\ mgr.used = WriteThrough
          /\ mgr.used = "None" <=> (supabase = "None" /\ service_client = "None")
          /\ mgr.used = "None" => ReturnedFallback
    /\ ReadsUseStandardOnly

\* The standard client could not be constructed while the privileged one
\* exists: get_asset returned None for an id the store holds.
C21_Witness ==
    /\ mgr.op = "get_asset"
    /\ supabase = "None"
    /\ service_client = "service"
    /\ mgr.ret = <<>>
    /\ \E i \in 1 .. Len(store) : store[i].id = mgr.arg

----------------------------------------------------------------------------
(* Properties of the URL of an upload, checked under SpecManager *)

\* C22: once the upload step of upload_file_to_storage succeeded (non-empty
\* upload response), the function returns a non-empty URL and never None: a
\* failure of the signing step of any kind (no HTTP client, a status other
\* than 200, a 200 answer without a signed-URL field, or an exception) yields
\* the public URL, and the signed URL is returned only on a 200 answer that
\* carries one.
C22_UrlAfterUpload ==
    (mgr.op = "upload_file_to_storage" /\ mgr.uploaded) =>
        LET public == [str |-> <<"{supabase_url}", "/storage/v1/object/public/",
                                 "assets", "/", "balcao.skp">>]
            signed == [str |-> <<"{supabase_url}", "/storage/v1/object/sign/",
                                 "assets", "/", "balcao.skp", "?token">>]
        IN  /\ mgr.ret # <<>>
            /\ mgr.ret[1].str # <<>>
            /\ mgr.ret[1] \in { public, signed }
            /\ mgr.answer \in {"no_http", "refused", "empty", "raise"} =>
                   mgr.ret[1] = public
            /\ mgr.ret[1] = signed => (mgr.signed /\ mgr.answer = "signed")

\* The upload went through the privileged client, the sign endpoint answered
\* 200 without a signed-URL field, and the public URL came back.
C22_Witness ==
    /\ mgr.op = "upload_file_to_storage"
    /\ mgr.uploaded
    /\ mgr.used = "service"
    /\ mgr.signed
    /\ mgr.answer = "empty"
    /\ mgr.ret # <<>>
    /\ mgr.ret[1].str[2] = "/storage/v1/object/public/"

----------------------------------------------------------------------------
(* Properties of delete_asset, checked under SpecManager *)

\* The table without the row of the given id, if it holds one.
StoreWithout(asset_id) == SelectSeq(store, LAMBDA row : row.id # asset_id)

\* The return value of a delete_asset call: True exactly when a client was
\* available and the remote call did not raise, also for an id the store
\* does not hold; False exactly when no client is available or the call
\* raised.
DeleteAnswer ==
    /\ mgr'.ret = TRUE <=> (mgr'.used # "None" /\ ~mgr'.caught)
    /\ mgr'.ret = FALSE <=> (mgr'.used = "None" \/ mgr'.caught)
    /\ mgr'.ret = TRUE => store' = StoreWithout(mgr'.arg)

\* C23 as stated: delete_asset returns True exactly when a client was
\* available and the remote delete call did not raise, including when no
\* asset with the given id exists; it returns False exactly when no client is
\* available or the call raised, and in that case the store is unchanged by
\* the operation.
C23_FalseLeavesStoreUnchanged ==
    [][ mgr'.op = "delete_asset" =>
            /\ DeleteAnswer
            /\ mgr'.ret = FALSE => store' = store ]_vars

\* C23 amended: the return value is as stated.  When delete_asset returns
\* False because no client is available the store is unchanged; when it
\* returns False because the call raised, the store is either unchanged or
\* has lost the asset of that id, the request having been carried out before
\* the failure reached the caller.
C23_DeleteAnswerAndStore ==
    [][ mgr'.op = "delete_asset" =>
            /\ DeleteAnswer
            /\ (mgr'.ret = FALSE /\ mgr'.used = "None") => store' = store
            /\ (mgr'.ret = FALSE /\ mgr'.caught) =>
                   store' \in { store, StoreWithout(mgr'.arg) } ]_vars

\* delete_asset returned True for an id the store never holds, and the
\* store kept its rows.
C23_Witness ==
    /\ mgr.op = "delete_asset"
    /\ mgr.arg = ToString(MaxAssets + 1)
    /\ mgr.ret = TRUE
    /\ mgr.used # "None"
    /\ Len(store) = MaxAssets

====
